---- MODULE Spec2Model ----
(***************************************************************************)
(* Model of two scripts of dlut-research-service:                          *)
(*   - src/main/flask/BertNER.py : BIO tagging of a tokenized sentence     *)
(*     against a list of (phrase, entity_type) pairs;                      *)
(*   - src/main/flask/demo.py    : the dataset-generation loop that calls  *)
(*     generatedataset for every record with a non-empty DE field.         *)
(* Python lists are modelled as TLA+ sequences; Python indices stay        *)
(* 0-based in the operators below (element i of a list is seq[i+1]).       *)
(***************************************************************************)
EXTENDS Integers, Sequences, FiniteSets, TLC

\* ---------------------------------------------------------------- bounds
MaxLen == 3         \* longest tokenized sentence
MaxPhrase == 2      \* longest tokenized entity phrase
MaxEntities == 2    \* longest entity list
MaxRecords == 3     \* longest paper dataset

\* tokens the tokenizer can produce, and the entity types in use
Vocabulary == {"x", "y"}
EntityTypes == {"Object", "Method"}

VARIABLES
    tokenized_sentence,  \* BertNER.py:16
    entities,            \* BertNER.py:7, each entity given by its tokenization
    labels,              \* BertNER.py:19
    k,                   \* number of entities the for loop of line 22 has processed
    pc,                  \* "loop", "done" or "IndexError"
    wos_datas,           \* demo.py:40
    result,              \* demo.py:42
    num,                 \* demo.py:43
    calls,               \* completion requests sent (demo.py:15)
    result_json,         \* what demo.py:53 wrote to result.json
    dpc                  \* "loop", "dumped" or "raised"

nerVars == <<tokenized_sentence, entities, labels, k, pc>>
demoVars == <<wos_datas, result, num, calls, result_json, dpc>>
vars == <<tokenized_sentence, entities, labels, k, pc,
         wos_datas, result, num, calls, result_json, dpc>>

\* ------------------------------------------------------- Python helpers
Min(a, b) == IF a < b THEN a ELSE b

\* all sequences over S of length 0 .. n
SeqUpTo(S, n) == UNION {[1..m -> S] : m \in 0..n}

\* lst[lo:hi] for 0 <= lo (the stop index is clamped to len(lst))
Slice(lst, lo, hi) == SubSeq(lst, lo + 1, Min(hi, Len(lst)))

\* ['O'] * n
Repeat(v, n) == [j \in 1..n |-> v]

\* start_index = None
None == -1

\* f"B-{entity_type}" and f"I-{entity_type}"
BTag(entity_type) == "B-" \o entity_type
ITag(entity_type) == "I-" \o entity_type

\* lst[i] = v with i inside the list; SetItem_insert is lst.insert(i, v)
SetItem_insert(lst, i, v) == SubSeq(lst, 1, i) \o <<v>> \o SubSeq(lst, i + 1, Len(lst))
SetItem(lst, i, v) == [lst EXCEPT ![i + 1] = v]

\* the indices a list of that length accepts (start_index is never negative)
InRange(lst, i) == i >= 0 /\ i < Len(lst)

\* ----------------------------------------------------- BertNER.py:24-29
\* the scan for i in range(len(tokenized_sentence) - len(entity_tokens) + 1),
\* resumed at offset i; the first match breaks out of the loop
RECURSIVE ScanFrom(_, _, _)
ScanFrom(toks, entity_tokens, i) ==
    IF i >= Len(toks) - Len(entity_tokens) + 1 THEN None
    ELSE IF Slice(toks, i, i + Len(entity_tokens)) = entity_tokens THEN i
    ELSE ScanFrom(toks, entity_tokens, i + 1)

\* a scan that keeps going after a match and so returns the last one
RECURSIVE ScanLast(_, _, _)
ScanLast(toks, entity_tokens, i) ==
    IF i >= Len(toks) - Len(entity_tokens) + 1 THEN None
    ELSE LET rest == ScanLast(toks, entity_tokens, i + 1)
         IN  IF rest # None THEN rest
             ELSE IF Slice(toks, i, i + Len(entity_tokens)) = entity_tokens THEN i
             ELSE None

\* a scan whose start_index starts at 0 instead of None
FindStart_zero(toks, entity_tokens) ==
    IF ScanFrom(toks, entity_tokens, 0) = None THEN 0 ELSE ScanFrom(toks, entity_tokens, 0)

FindStart_last(toks, entity_tokens) == ScanLast(toks, entity_tokens, 0)

FindStart(toks, entity_tokens) == ScanFrom(toks, entity_tokens, 0)

\* ----------------------------------------------------- BertNER.py:33-34
\* for i in range(i, stop): labels[i] = f"I-{entity_type}"
RECURSIVE TagInside(_, _, _, _)
TagInside(lbls, i, stop, entity_type) ==
    IF i >= stop THEN lbls
    ELSE TagInside(SetItem(lbls, i, ITag(entity_type)), i + 1, stop, entity_type)

\* ----------------------------------------------------- BertNER.py:32-34
\* variants: every covered token gets the B- tag; the I- range starts at
\* start_index; labels already set are not overwritten
TagSpan_allB(lbls, start_index, n, entity_type) ==
    [j \in 1..Len(lbls) |->
        IF j - 1 >= start_index /\ j - 1 < start_index + n THEN BTag(entity_type) ELSE lbls[j]]

TagSpan_fromStart(lbls, start_index, n, entity_type) ==
    TagInside(SetItem(lbls, start_index, BTag(entity_type)),
              start_index, start_index + n, entity_type)

TagSpan_keep(lbls, start_index, n, entity_type) ==
    LET new == TagInside(SetItem(lbls, start_index, BTag(entity_type)),
                         start_index + 1, start_index + n, entity_type)
    IN  [j \in 1..Len(lbls) |-> IF lbls[j] = "O" THEN new[j] ELSE lbls[j]]

TagSpan(lbls, start_index, n, entity_type) ==
    TagInside(SetItem(lbls, start_index, BTag(entity_type)),
              start_index + 1, start_index + n, entity_type)

\* the indices lines 32-34 assign to
WriteIndices(start_index, n) == {start_index} \cup ((start_index + 1)..(start_index + n - 1))

\* ------------------------------------------------------------ BertNER.py
Entity == [toks : SeqUpTo(Vocabulary, MaxPhrase), type : EntityTypes]

InitNER ==
    /\ tokenized_sentence \in SeqUpTo(Vocabulary, MaxLen)
    /\ entities \in SeqUpTo(Entity, MaxEntities)
    /\ labels = Repeat("O", Len(tokenized_sentence))
    /\ k = 0
    /\ pc = "loop"

\* the entity the next iteration of line 22 takes, and its start_index
Cur == entities[k + 1]
CurStart == FindStart(tokenized_sentence, Cur.toks)

\* lines 23-31 with start_index None: nothing is written
EntityNoMatch ==
    /\ pc = "loop" /\ k < Len(entities)
    /\ CurStart = None
    /\ k' = k + 1
    /\ UNCHANGED <<tokenized_sentence, entities, labels, pc>>

\* lines 23-34 with a start_index: the span is tagged
EntityTag ==
    /\ pc = "loop" /\ k < Len(entities)
    /\ CurStart # None
    /\ \A i \in WriteIndices(CurStart, Len(Cur.toks)) : InRange(labels, i)
    /\ labels' = TagSpan(labels, CurStart, Len(Cur.toks), Cur.type)
    /\ k' = k + 1
    /\ UNCHANGED <<tokenized_sentence, entities, pc>>

\* lines 23-34 where an assignment to labels falls outside the list
EntityIndexError ==
    /\ pc = "loop" /\ k < Len(entities)
    /\ CurStart # None
    /\ \E i \in WriteIndices(CurStart, Len(Cur.toks)) : ~InRange(labels, i)
    /\ pc' = "IndexError"
    /\ UNCHANGED <<tokenized_sentence, entities, labels, k>>

\* lines 38-39: the loop is over and the result is printed
Finish ==
    /\ pc = "loop" /\ k = Len(entities)
    /\ pc' = "done"
    /\ UNCHANGED <<tokenized_sentence, entities, labels, k>>

\* -------------------------------------------------------------- demo.py
\* the replies of the completion API (response.choices[0].message.content)
Replies == {"[('cnn', 'method')]", "[\n('cnn', 'object')\n]", "[]", "Sure, here is the list"}

\* demo.py:31  content.replace("\n", "")
RemoveNewlines(content) ==
    CASE content = "[\n('cnn', 'object')\n]" -> "[('cnn', 'object')]"
      [] OTHER -> content

\* demo.py:32  ast.literal_eval: the value of a Python literal, or an exception
LiteralEval(text) ==
    CASE text = "[('cnn', 'method')]" -> [raises |-> FALSE, value |-> << <<"cnn", "method">> >>]
      [] text = "[('cnn', 'object')]" -> [raises |-> FALSE, value |-> << <<"cnn", "object">> >>]
      [] text = "[]" -> [raises |-> FALSE, value |-> <<>>]
      [] OTHER -> [raises |-> TRUE, value |-> <<>>]

\* truth value of a Python list
Truthy(value) == value # <<>>

\* Python's None, as a list element
PyNone == [none |-> TRUE]

\* demo.py:31-33  what generatedataset returns for a reply that parses
GenerateDataset(title, content) ==
    LET res == RemoveNewlines(content)
    IN  IF Truthy(LiteralEval(res).value) THEN [Text |-> title, tag |-> res] ELSE PyNone

\* demo.py:46  if i.DE == ''
IsSkipped_never(rec) == FALSE
IsSkipped(rec) == rec.DE = ""

Paper == [TI : {"t1", "t2"}, DE : {"", "cnn; yolo"}]

InitDemo ==
    /\ wos_datas \in SeqUpTo(Paper, MaxRecords)
    /\ result = <<>>
    /\ num = 0
    /\ calls = 0
    /\ result_json = PyNone
    /\ dpc = "loop"

\* the record the next iteration of line 44 takes
Rec == wos_datas[num + 1]

\* demo.py:44-47  a record with an empty DE is skipped
LoopSkip ==
    /\ dpc = "loop" /\ num < Len(wos_datas)
    /\ IsSkipped(Rec)
    /\ num' = num + 1
    /\ UNCHANGED <<wos_datas, result, calls, result_json, dpc>>

\* demo.py:44-50  generatedataset is called and its return value appended
LoopAppend ==
    /\ dpc = "loop" /\ num < Len(wos_datas)
    /\ ~IsSkipped(Rec)
    /\ \E content \in Replies :
          /\ ~LiteralEval(RemoveNewlines(content)).raises
          /\ result' = Append(result, GenerateDataset(Rec.TI, content))
    /\ num' = num + 1
    /\ calls' = calls + 1
    /\ UNCHANGED <<wos_datas, result_json, dpc>>

\* demo.py:44-48  ast.literal_eval raises inside generatedataset: the script dies
LoopRaise ==
    /\ dpc = "loop" /\ num < Len(wos_datas)
    /\ ~IsSkipped(Rec)
    /\ \E content \in Replies : LiteralEval(RemoveNewlines(content)).raises
    /\ num' = num + 1
    /\ calls' = calls + 1
    /\ dpc' = "raised"
    /\ UNCHANGED <<wos_datas, result, result_json>>

\* demo.py:52-53  json.dump(result, file)
Dump ==
    /\ dpc = "loop" /\ num = Len(wos_datas)
    /\ result_json' = result
    /\ dpc' = "dumped"
    /\ UNCHANGED <<wos_datas, result, num, calls>>

\* ------------------------------------------------- the two specifications
NERIdle ==
    /\ tokenized_sentence = <<>> /\ entities = <<>> /\ labels = <<>>
    /\ k = 0 /\ pc = "done"

DemoIdle ==
    /\ wos_datas = <<>> /\ result = <<>> /\ num = 0 /\ calls = 0
    /\ result_json = PyNone /\ dpc = "dumped"

Init == InitNER /\ DemoIdle

Next ==
    \/ EntityNoMatch /\ UNCHANGED demoVars
    \/ EntityTag /\ UNCHANGED demoVars
    \/ EntityIndexError /\ UNCHANGED demoVars
    \/ Finish /\ UNCHANGED demoVars

Spec == Init /\ [][Next]_vars

InitD == InitDemo /\ NERIdle

NextD ==
    \/ LoopSkip /\ UNCHANGED nerVars
    \/ LoopAppend /\ UNCHANGED nerVars
    \/ LoopRaise /\ UNCHANGED nerVars
    \/ Dump /\ UNCHANGED nerVars

SpecDemo == InitD /\ [][NextD]_vars

\* ===================================================== properties: tagger
\* the start offsets at which the phrase et occurs in toks, stated directly
Occurrences(toks, et) ==
    {i \in 0..Len(toks) :
        /\ i + Len(et) <= Len(toks)
        /\ \A j \in 1..Len(et) : toks[i + j] = et[j]}

SetMin(S) == CHOOSE m \in S : \A o \in S : m <= o

Sentence == tokenized_sentence
Positions == 0..(Len(Sentence) - 1)
AllO == [j \in 1..Len(Sentence) |-> "O"]

\* an iteration of the loop of line 22 is about to run on Cur
AtEntity == pc = "loop" /\ k < Len(entities)

\* first occurrence, matched span and assigned positions of the j-th entity
FirstOcc(j) == SetMin(Occurrences(Sentence, entities[j].toks))
Matched(j) == Occurrences(Sentence, entities[j].toks) # {}
SpanOf(j) ==
    IF Matched(j) THEN FirstOcc(j)..(FirstOcc(j) + Len(entities[j].toks) - 1) ELSE {}
Assigned(j) == IF Matched(j) THEN {FirstOcc(j)} \cup SpanOf(j) ELSE {}
TagAt(j, p) == IF p = FirstOcc(j) THEN BTag(entities[j].type) ELSE ITag(entities[j].type)

BTags == {BTag(t) : t \in EntityTypes}
ITags == {ITag(t) : t \in EntityTypes}

\* C1: the label sequence always has exactly one label per token.
C1_LabelsLength == Len(labels) = Len(tokenized_sentence)

C1_Witness ==
    /\ pc = "done" /\ k = 2
    /\ Len(labels) = 3
    /\ \E p \in 1..Len(labels) : labels[p] \in ITags

\* C2: a phrase of n >= 1 tokens that occurs exactly once, at i, gets B- at i,
\* I- at i+1 .. i+n-1, and the step leaves every other label as it was.
C2_UniqueMatchTagged ==
    [][ (AtEntity /\ Len(Cur.toks) >= 1
         /\ Cardinality(Occurrences(Sentence, Cur.toks)) = 1)
        => LET i == SetMin(Occurrences(Sentence, Cur.toks))
               n == Len(Cur.toks)
           IN  /\ k' = k + 1
               /\ Len(labels') = Len(labels)
               /\ labels'[i + 1] = BTag(Cur.type)
               /\ \A p \in (i + 1)..(i + n - 1) : labels'[p + 1] = ITag(Cur.type)
               /\ \A p \in Positions \ (i..(i + n - 1)) : labels'[p + 1] = labels[p + 1]
      ]_vars

C2_Witness ==
    /\ k = 2 /\ Len(Sentence) = 3
    /\ Len(entities[2].toks) = 2
    /\ Occurrences(Sentence, entities[2].toks) = {1}
    /\ labels[1] \in BTags
    /\ labels[2] = BTag(entities[2].type) /\ labels[3] = ITag(entities[2].type)

\* C3 as stated: with several occurrences, the step leaves the labels of
\* every occurrence after the first one unchanged.
C3_LaterOccurrencesUntouched ==
    [][ (AtEntity /\ Cardinality(Occurrences(Sentence, Cur.toks)) >= 2)
        => LET occ == Occurrences(Sentence, Cur.toks)
               n == Len(Cur.toks)
           IN  \A o \in occ \ {SetMin(occ)} :
                   \A p \in o..(o + n - 1) : labels'[p + 1] = labels[p + 1]
      ]_vars

\* C3 amended: with several occurrences, only the one with the smallest start
\* offset s is tagged: B- at s, I- at s+1 .. s+n-1, every other position is
\* unchanged, so a later occurrence keeps its labels outside s .. s+n-1.
C3_FirstOccurrenceOnly ==
    [][ (AtEntity /\ Cardinality(Occurrences(Sentence, Cur.toks)) >= 2)
        => LET occ == Occurrences(Sentence, Cur.toks)
               s == SetMin(occ)
               n == Len(Cur.toks)
           IN  /\ k' = k + 1
               /\ labels'[s + 1] = BTag(Cur.type)
               /\ \A p \in (s + 1)..(s + n - 1) : labels'[p + 1] = ITag(Cur.type)
               /\ \A p \in Positions \ ({s} \cup (s..(s + n - 1))) :
                      labels'[p + 1] = labels[p + 1]
      ]_vars

C3_Witness ==
    /\ k = 1 /\ pc = "done"
    /\ Sentence = <<"x", "x", "x">>
    /\ entities[1].toks = <<"x", "x">>
    /\ labels = <<BTag(entities[1].type), ITag(entities[1].type), "O">>

\* C4: a phrase that occurs nowhere in the sentence (a phrase longer than
\* the sentence included) leaves every label unchanged and raises nothing;
\* a single such entity gives the all-"O" output.
C4_NoMatchNoChange ==
    /\ [][ (AtEntity /\ Occurrences(Sentence, Cur.toks) = {})
           => (labels' = labels /\ pc' = "loop" /\ k' = k + 1) ]_vars
    /\ [](pc = "done" /\ Len(entities) = 1 /\ Occurrences(Sentence, entities[1].toks) = {}
          => labels = AllO)

C4_Witness ==
    /\ pc = "done" /\ Len(entities) = 2
    /\ Len(Sentence) = 1
    /\ Matched(1) /\ Len(entities[1].toks) = 1
    /\ Len(entities[2].toks) = 2 /\ ~Matched(2)
    /\ labels = <<BTag(entities[1].type)>>

\* C5: after steps that only processed phrases of zero tokens, no label has
\* changed (in particular labels[0] is still "O").
C5_EmptyPhraseNoChange ==
    (k >= 1 /\ \A j \in 1..k : entities[j].toks = <<>>) => labels = AllO

\* C6: when the matched spans of two entities overlap, the later one's tags
\* stand on the overlap and the earlier one's on the positions only it covers
\* (unless a still later entity assigns that position).
C6_LaterEntityWins ==
    pc = "done" =>
        \A j \in 1..Len(entities) : \A m \in (j + 1)..Len(entities) :
            SpanOf(j) \cap SpanOf(m) # {} =>
                /\ \A p \in SpanOf(m) :
                       (\A q \in (m + 1)..Len(entities) : p \notin Assigned(q))
                       => labels[p + 1] = TagAt(m, p)
                /\ \A p \in SpanOf(j) \ SpanOf(m) :
                       (\A q \in (j + 1)..Len(entities) : p \notin Assigned(q))
                       => labels[p + 1] = TagAt(j, p)

C6_Witness ==
    /\ pc = "done"
    /\ Sentence = <<"x", "y", "x">>
    /\ entities = << [toks |-> <<"x", "y">>, type |-> "Object"],
                     [toks |-> <<"y", "x">>, type |-> "Method"] >>
    /\ labels = <<"B-Object", "B-Method", "I-Method">>

\* C7: no run ends in an out-of-range assignment to labels.
C7_NoIndexError == pc # "IndexError"

\* C9 as stated, for entity lists whose phrases all have at least one token:
\* every I-L is at a position > 0 and right after a B-L or I-L of the same L.
C9_WellFormedBIO ==
    (pc = "done" /\ \A j \in 1..Len(entities) : entities[j].toks # <<>>) =>
        \A p \in Positions : \A t \in EntityTypes :
            labels[p + 1] = ITag(t) => (p > 0 /\ labels[p] \in {BTag(t), ITag(t)})

\* C9 amended: every I-L is at a position > 0 and right after a B- or I- label
\* of some entity type; the type is the same L whenever no position is
\* assigned by two entities of the list.
C9_InsideFollowsTag ==
    \A p \in Positions : \A t \in EntityTypes :
        labels[p + 1] = ITag(t) =>
            /\ p > 0
            /\ labels[p] \in BTags \cup ITags
            /\ (\A j \in 1..Len(entities) : \A m \in (j + 1)..Len(entities) :
                    Assigned(j) \cap Assigned(m) = {})
               => labels[p] \in {BTag(t), ITag(t)}

C9_Witness ==
    /\ pc = "done"
    /\ Sentence = <<"x", "y", "x">>
    /\ entities = << [toks |-> <<"y", "x">>, type |-> "Method"],
                     [toks |-> <<"x", "y">>, type |-> "Object"] >>
    /\ labels = <<"B-Object", "I-Object", "I-Method">>

\* ======================================================= properties: demo
\* the records among the first n of the dataset that have a non-empty DE
RECURSIVE NonEmptyDE(_)
NonEmptyDE(n) ==
    IF n = 0 THEN <<>>
    ELSE IF wos_datas[n].DE = "" THEN NonEmptyDE(n - 1)
    ELSE Append(NonEmptyDE(n - 1), wos_datas[n])

IsEntry(e) == DOMAIN e = {"Text", "tag"}

C10_NoNullEntry == \A j \in 1..Len(result) : IsEntry(result[j])

====
